---- MODULE Spec2Model ----
(***************************************************************************)
(* Join manager of cs2-casual-enjoyer (src/js/join-manager.js): the        *)
(* registry joinStates, the public operations startJoin, cancelJoin and    *)
(* resetAll, and the asynchronous joinLoop, one instance per startJoin.    *)
(* JavaScript runs the code between two awaits without interruption, so    *)
(* every action below is one such run: from the resumption of a loop (a    *)
(* fetch returns, a sleep ends) or the call of a public operation up to    *)
(* the next await or the return.  What the module leaves to the UI is not   *)
(* part of this specification: the dots and buttons of UIManager, the      *)
(* setInterval timer of startJoin that refreshes them (the entry's field   *)
(* interval) and the display fields personaname and avatar of an entry;    *)
(* none of them is read by joinLoop's control flow.                        *)
(***************************************************************************)
EXTENDS Integers, Sequences, FiniteSets, TLC

VARIABLES joinStates, loops, now, ticks, call

vars == <<joinStates, loops, now, ticks, call>>

(***************************************************************************)
(* Bounds of the model.                                                    *)
(***************************************************************************)
\* joinLoop invocations that may be running at once
MaxLoops == 2
\* clock advances of one behaviour
MaxTicks == 2

Friends == {"f1", "f2"}
Slots == 1..MaxLoops

(***************************************************************************)
(* Values.                                                                 *)
(***************************************************************************)
\* null / undefined of a string-valued expression
NULL == "null"
\* let missingSince = null
NoTime == -1
\* const interval_ms = 500 in startJoin
interval_ms == 500
\* Math.max(100, interval_ms)
MinInterval == 100
\* Date.now() - missingSince > 60000
MissingTimeout == 60000
\* setTimeout(r, 1500) after "joined"
JoinedHold == 1500

Max(a, b) == IF a >= b THEN a ELSE b

\* Interval without the lower limit
Interval_noClamp(ms) == ms

\* let interval = Math.max(100, interval_ms)
Interval(ms) == Max(MinInterval, ms)

\* what getFriendConnectInfo resolves to: null or rp.connect
ConnectResults == {NULL, "+gcconnect"}
\* what getUserGameServerSteamId resolves to: null or a server id
ServerResults == {NULL, "s1", "s2"}
\* one element of the array getFriendsStatuses resolves to
\* (of its fields, can_join is the one that says whether the friend is in a
\* joinable casual match)
FriendStatusObjects == [can_join : BOOLEAN]

\* outcomes of await getFriendsStatuses([friend_id], auth): the call throws
\* (response not ok), or resolves to an empty array (the friend is not in
\* game 730) or to an array of one status object
StatusesResults ==
    {[threw |-> TRUE, list |-> <<>>], [threw |-> FALSE, list |-> <<>>]}
    \cup {[threw |-> FALSE, list |-> <<fs>>] : fs \in FriendStatusObjects}

\* how far the clock moves between two observations
TickSteps == {interval_ms, MissingTimeout}

Statuses == {"waiting", "connecting", "joined", "missing", "cancelled"}

\* the awaits of joinLoop
AwaitPcs == {"connectInfo", "statuses", "sleepPoll", "sleepConnect",
             "userServer", "friendServer", "sleepJoined"}
\* a slot without a running loop: never used, returned, or ended by an exception
FreePcs == {"idle", "done", "threw"}

IdleLoop ==
    [fid |-> "none", pc |-> "idle", missingSince |-> NoTime, statuses |-> <<>>,
     user_server |-> NULL, friend_server |-> NULL, wake |-> 0]

\* the user's own steam id, read from the steam_id input by startJoin
user_steam_id == "self"

(***************************************************************************)
(* The registry: const joinStates = {}                                     *)
(***************************************************************************)
HasEntry(js, f) == f \in DOMAIN js

\* joinStates[friend_id]?.cancelled
IsCancelled(js, f) == HasEntry(js, f) /\ js[f].cancelled

\* the entry startJoin writes
NewEntry == [status |-> "waiting", cancelled |-> FALSE]

SetEntry(js, f, e) ==
    [g \in DOMAIN js \cup {f} |-> IF g = f THEN e ELSE js[g]]

SetStatus(js, f, s) == [js EXCEPT ![f].status = s]

\* cancelJoin: joinStates[friend_id] = {...joinStates[friend_id],
\*                                       status: 'cancelled', cancelled: true}
CancelledEntry(js, f) ==
    IF HasEntry(js, f)
    THEN [js[f] EXCEPT !.status = "cancelled", !.cancelled = TRUE]
    ELSE [status |-> "cancelled", cancelled |-> TRUE]

\* cancelJoinStates with a cancelJoin that sets the flag and leaves the status
cancelJoinStates_flagOnly(js, f) ==
    IF HasEntry(js, f)
    THEN [js EXCEPT ![f].cancelled = TRUE]
    ELSE SetEntry(js, f, CancelledEntry(js, f))

cancelJoinStates(js, f) == SetEntry(js, f, CancelledEntry(js, f))

\* const joinStates = {}
EmptyRegistry == [g \in {} |-> NewEntry]

(***************************************************************************)
(* State.  joinStates: the registry, a map from the friend ids that have   *)
(* an entry to their entries.  loops: the joinLoop invocations, each at    *)
(* the await it is suspended at, with its local variables.  now:           *)
(* Date.now(), some positive instant at the start (the code reads only     *)
(* differences of it).  ticks: how often the clock has advanced.  call:    *)
(* the application of a pure function that the specifications of the pure  *)
(* functions (further down) observe; the join manager leaves it alone.     *)
(***************************************************************************)
\* no pure function is under observation
NoCall == [fn |-> "none"]

Init ==
    /\ joinStates = EmptyRegistry
    /\ loops = [l \in Slots |-> IdleLoop]
    /\ now = interval_ms
    /\ ticks = 0
    /\ call = NoCall

(***************************************************************************)
(* Helpers of joinLoop.                                                    *)
(***************************************************************************)
\* friendStatus.in_casual_mode: the status objects of getFriendsStatuses
\* carry can_join and join_available; a property an object does not have
\* reads as undefined, which is falsy
in_casual_mode(fs) ==
    IF "in_casual_mode" \in DOMAIN fs THEN fs.in_casual_mode ELSE FALSE

\* a loop that has returned ("done") or was ended by an exception ("threw")
Ended(pc) == [IdleLoop EXCEPT !.pc = pc]

\* Throw with an exception that ends every running loop
Throw_endsAll(l) ==
    /\ loops' = [k \in Slots |->
                    IF loops[k].pc \in AwaitPcs THEN Ended("threw") ELSE loops[k]]
    /\ UNCHANGED joinStates

\* an exception leaves joinLoop: the promise of this invocation, which
\* startJoin does not await, is rejected
Throw(l) ==
    /\ loops' = [loops EXCEPT ![l] = Ended("threw")]
    /\ UNCHANGED joinStates

\* after the while: if (joinStates[friend_id]?.status !== "joined")
\*                      joinStates[friend_id].status = "cancelled"
ExitStates(js, f) ==
    IF HasEntry(js, f) /\ js[f].status # "joined"
    THEN SetStatus(js, f, "cancelled")
    ELSE js

\* that assignment throws a TypeError when the entry does not exist
ExitPc(js, f) == IF HasEntry(js, f) THEN "done" ELSE "threw"

\* CancelOthersStates with a cancelJoin that sets the flag and forgets the status
CancelOthersStates_flagOnly(js, f) ==
    [g \in DOMAIN js |-> IF g # f THEN [js[g] EXCEPT !.cancelled = TRUE] ELSE js[g]]

\* Object.keys(joinStates).forEach(fid => { if (fid !== friend_id) cancelJoin(fid) })
CancelOthersStates(js, f) ==
    [g \in DOMAIN js |-> IF g # f THEN CancelledEntry(js, g) ELSE js[g]]

\* the slots without a running joinLoop
FreeSlots == {l \in Slots : loops[l].pc \in FreePcs}

(***************************************************************************)
(* startJoin(friend_id): writes a fresh entry and calls joinLoop, which    *)
(* runs to its first await: the entry is new, so the cancelled check of    *)
(* the first iteration passes and getFriendConnectInfo is called.          *)
(***************************************************************************)
startJoin(f) ==
    /\ FreeSlots # {}
    /\ LET l == CHOOSE x \in FreeSlots : \A y \in FreeSlots : x <= y IN
        /\ joinStates' = SetEntry(joinStates, f, NewEntry)
        /\ loops' = [loops EXCEPT ![l] =
                        [IdleLoop EXCEPT !.fid = f, !.pc = "connectInfo"]]
    /\ UNCHANGED <<now, ticks, call>>

(***************************************************************************)
(* cancelJoin(friend_id), called by the UI.                                *)
(***************************************************************************)
cancelJoin(f) ==
    /\ joinStates' = cancelJoinStates(joinStates, f)
    /\ UNCHANGED <<loops, now, ticks, call>>

(***************************************************************************)
(* resetAll(): deletes every entry.                                        *)
(***************************************************************************)
resetAll ==
    /\ joinStates' = EmptyRegistry
    /\ UNCHANGED <<loops, now, ticks, call>>

(***************************************************************************)
(* joinLoop, one action per await.                                         *)
(***************************************************************************)
\* top of the while: if (joinStates[friend_id]?.cancelled) break; otherwise
\* await SteamAPI.getFriendConnectInfo(friend_id, auth)
TopOfLoop(l) ==
    LET f == loops[l].fid IN
    IF IsCancelled(joinStates, f)
    THEN /\ joinStates' = ExitStates(joinStates, f)
         /\ loops' = [loops EXCEPT ![l] = Ended(ExitPc(joinStates, f))]
    ELSE \* the constants of the last iteration (statuses, user_server,
         \* friend_server) are out of scope
         /\ loops' = [loops EXCEPT ![l] =
                         [IdleLoop EXCEPT !.fid = f, !.pc = "connectInfo",
                                          !.missingSince = loops[l].missingSince]]
         /\ UNCHANGED joinStates

\* current_connect = await SteamAPI.getFriendConnectInfo(...) resolves to c
joinLoop_connectInfo(l, c) ==
    /\ loops[l].pc = "connectInfo"
    /\ LET f == loops[l].fid IN
        IF c = NULL
        THEN \* if (!current_connect): await getFriendsStatuses([friend_id], auth)
             /\ loops' = [loops EXCEPT ![l].pc = "statuses"]
             /\ UNCHANGED joinStates
        ELSE IF ~HasEntry(joinStates, f)
        THEN \* joinStates[friend_id].status = ... on undefined: TypeError
             Throw(l)
        ELSE \* status = "connecting"; open(url, "_self"); await sleep(interval)
             /\ joinStates' = SetStatus(joinStates, f, "connecting")
             /\ loops' = [loops EXCEPT ![l].pc = "sleepConnect",
                                       ![l].wake = now + Interval(interval_ms)]
    /\ UNCHANGED <<now, ticks, call>>

\* statuses = await SteamAPI.getFriendsStatuses(...) resolves to r or throws
joinLoop_statuses(l, r) ==
    /\ loops[l].pc = "statuses"
    /\ LET f == loops[l].fid
           lp == loops[l]
           hasStatus == Len(r.list) > 0
           casual == hasStatus /\ in_casual_mode(r.list[1])
           since == IF lp.missingSince = NoTime THEN now ELSE lp.missingSince
           missing == SetStatus(joinStates, f, "missing")
           timedOut == cancelJoinStates(missing, f)
       IN
        IF r.threw \/ ~HasEntry(joinStates, f)
        THEN \* the rejection, or the TypeError of joinStates[friend_id].status = ...,
             \* leaves joinLoop
             Throw(l)
        ELSE IF ~casual /\ now - since > MissingTimeout
        THEN \* status = "missing"; cancelJoin(friend_id); break
             /\ joinStates' = ExitStates(timedOut, f)
             /\ loops' = [loops EXCEPT ![l] = Ended(ExitPc(timedOut, f))]
        ELSE IF ~casual
        THEN \* status = "missing"; await sleep(interval)
             /\ joinStates' = missing
             /\ loops' = [loops EXCEPT ![l].pc = "sleepPoll",
                                       ![l].missingSince = since,
                                       ![l].statuses = r.list,
                                       ![l].wake = now + Interval(interval_ms)]
        ELSE \* friend is back in casual: missingSince = null; status = "waiting"
             /\ joinStates' = SetStatus(joinStates, f, "waiting")
             /\ loops' = [loops EXCEPT ![l].pc = "sleepPoll",
                                       ![l].missingSince = NoTime,
                                       ![l].statuses = r.list,
                                       ![l].wake = now + Interval(interval_ms)]
    /\ UNCHANGED <<now, ticks, call>>

\* the sleep of line 83 or of line 105 ends: continue with the next iteration
joinLoop_sleepPoll(l) ==
    /\ loops[l].pc = "sleepPoll"
    /\ now >= loops[l].wake
    /\ TopOfLoop(l)
    /\ UNCHANGED <<now, ticks, call>>

\* the sleep after open() ends:
\* await SteamAPI.getUserGameServerSteamId(user_steam_id, auth)
joinLoop_sleepConnect(l) ==
    /\ loops[l].pc = "sleepConnect"
    /\ now >= loops[l].wake
    /\ loops' = [loops EXCEPT ![l].pc = "userServer", ![l].wake = 0]
    /\ UNCHANGED <<joinStates, now, ticks, call>>

\* user_server resolves to s: await getUserGameServerSteamId(friend_id, auth)
joinLoop_userServer(l, s) ==
    /\ loops[l].pc = "userServer"
    /\ loops' = [loops EXCEPT ![l].pc = "friendServer", ![l].user_server = s]
    /\ UNCHANGED <<joinStates, now, ticks, call>>

\* SameServer without the two truthiness tests
SameServer_noNullTest(user_server, friend_server) == user_server = friend_server

\* if (user_server && friend_server && user_server === friend_server)
SameServer(user_server, friend_server) ==
    user_server # NULL /\ friend_server # NULL /\ user_server = friend_server

\* friend_server resolves to s: the comparison of the two server ids
joinLoop_friendServer(l, s) ==
    /\ loops[l].pc = "friendServer"
    /\ LET f == loops[l].fid
           joined == SetStatus(joinStates, f, "joined")
       IN
        IF ~SameServer(loops[l].user_server, s)
        THEN \* await sleep(interval) of line 105
             /\ loops' = [loops EXCEPT ![l].pc = "sleepPoll",
                                       ![l].friend_server = s,
                                       ![l].wake = now + Interval(interval_ms)]
             /\ UNCHANGED joinStates
        ELSE IF ~HasEntry(joinStates, f)
        THEN Throw(l)
        ELSE \* status = "joined"; cancel the others; await sleep(1500)
             /\ joinStates' = CancelOthersStates(joined, f)
             /\ loops' = [loops EXCEPT ![l].pc = "sleepJoined",
                                       ![l].friend_server = s,
                                       ![l].wake = now + JoinedHold]
    /\ UNCHANGED <<now, ticks, call>>

\* the 1.5 s hold ends: cancelJoin(friend_id); break
joinLoop_sleepJoined(l) ==
    /\ loops[l].pc = "sleepJoined"
    /\ now >= loops[l].wake
    /\ LET f == loops[l].fid
           cancelled == cancelJoinStates(joinStates, f)
       IN
        /\ joinStates' = ExitStates(cancelled, f)
        /\ loops' = [loops EXCEPT ![l] = Ended(ExitPc(cancelled, f))]
    /\ UNCHANGED <<now, ticks, call>>

(***************************************************************************)
(* Time passes.                                                            *)
(***************************************************************************)
Tick(d) ==
    /\ ticks < MaxTicks
    /\ now' = now + d
    /\ ticks' = ticks + 1
    /\ UNCHANGED <<joinStates, loops, call>>

Next ==
    \/ \E f \in Friends : startJoin(f)
    \/ \E f \in Friends : cancelJoin(f)
    \/ resetAll
    \/ \E l \in Slots, c \in ConnectResults : joinLoop_connectInfo(l, c)
    \/ \E l \in Slots, r \in StatusesResults : joinLoop_statuses(l, r)
    \/ \E l \in Slots : joinLoop_sleepPoll(l)
    \/ \E l \in Slots : joinLoop_sleepConnect(l)
    \/ \E l \in Slots, s \in ServerResults : joinLoop_userServer(l, s)
    \/ \E l \in Slots, s \in ServerResults : joinLoop_friendServer(l, s)
    \/ \E l \in Slots : joinLoop_sleepJoined(l)
    \/ \E d \in TickSteps : Tick(d)

Spec == Init /\ [][Next]_vars

(***************************************************************************)
(* What a step of a loop does, read off its position before and after.     *)
(***************************************************************************)
ActiveIn(lps, l) == lps[l].pc \in AwaitPcs
Active(l) == ActiveIn(loops, l)

\* the running loops of friend f
LoopsOfIn(lps, f) == {l \in Slots : ActiveIn(lps, l) /\ lps[l].fid = f}
LoopsOf(f) == LoopsOfIn(loops, f)

\* the step calls open(url, "_self"): the launch adapter
Launches(l) == loops[l].pc = "connectInfo" /\ loops'[l].pc = "sleepConnect"

\* the step calls getFriendConnectInfo, getFriendsStatuses or
\* getUserGameServerSteamId
FetchPcs == {"connectInfo", "statuses", "userServer", "friendServer"}
Fetches(l) == loops'[l].pc \in FetchPcs /\ loops'[l].pc # loops[l].pc

\* the step executes joinStates[friend_id].status = "joined"
SetsJoined(l) == loops[l].pc = "friendServer" /\ loops'[l].pc = "sleepJoined"

\* the step ends the loop, by return or by exception
Ends(l) == Active(l) /\ ~ActiveIn(loops', l)

\* the step finds the friend joinable: getFriendConnectInfo gave a connect
\* string, or getFriendsStatuses gave a status object with can_join
FindsJoinable(l) ==
    \/ Launches(l)
    \/ /\ loops[l].pc = "statuses"
       /\ loops'[l].pc = "sleepPoll"
       /\ Len(loops'[l].statuses) > 0
       /\ loops'[l].statuses[1].can_join

(***************************************************************************)
(* C1.  No two loops of one friend run side by side: a loop that calls the *)
(* launch adapter is the only running loop of its friend (startJoin for a  *)
(* friend whose loop is running stops that loop first).                    *)
(***************************************************************************)
C1_LaunchOnlyBySoleLoop ==
    [][\A l \in Slots : Launches(l) => LoopsOf(loops[l].fid) = {l}]_vars

(***************************************************************************)
(* C2.  After cancelJoin(id), with no startJoin(id) since (the entry's     *)
(* cancelled flag is set), the loop of id does not call the launch adapter *)
(* again.                                                                  *)
(***************************************************************************)
C2_NoLaunchAfterCancel ==
    [][\A l \in Slots :
          (Active(l) /\ IsCancelled(joinStates, loops[l].fid))
              => ~Launches(l)]_vars

(***************************************************************************)
(* C3.  The step in which a loop sets the status of its friend to joined   *)
(* leaves every other entry of the registry with cancelled = TRUE and      *)
(* status cancelled: no state in between is observable.                    *)
(***************************************************************************)
C3_JoinedCancelsOthersAtomically ==
    [][\A l \in Slots :
          SetsJoined(l) =>
              /\ DOMAIN joinStates' = DOMAIN joinStates
              /\ joinStates'[loops[l].fid].status = "joined"
              /\ \A g \in DOMAIN joinStates \ {loops[l].fid} :
                    /\ joinStates'[g].cancelled
                    /\ joinStates'[g].status = "cancelled"]_vars

\* a loop holds joined while the loop of another friend, cancelled by it, is
\* still running
C3_Witness ==
    \E l \in Slots, g \in DOMAIN joinStates :
        /\ loops[l].pc = "sleepJoined"
        /\ g # loops[l].fid
        /\ HasEntry(joinStates, loops[l].fid)
        /\ joinStates[loops[l].fid].status = "joined"
        /\ joinStates[g].cancelled
        /\ joinStates[g].status = "cancelled"
        /\ LoopsOf(g) # {}

(***************************************************************************)
(* C4.  While a friend is joined, every other entry that has been          *)
(* cancelled stays with status cancelled.                                  *)
(***************************************************************************)
C4_OthersStayCancelled ==
    \A f \in DOMAIN joinStates, g \in DOMAIN joinStates :
        (f # g /\ joinStates[f].status = "joined" /\ joinStates[g].cancelled)
            => joinStates[g].status = "cancelled"

(***************************************************************************)
(* C5.  startJoin(id) on the registry that resetAll has emptied leaves     *)
(* exactly one running loop for id.                                        *)
(***************************************************************************)
C5_ResetThenStartOneLoop ==
    [][\A f \in Friends :
          (/\ DOMAIN joinStates = {}
           /\ HasEntry(joinStates', f)
           /\ ~joinStates'[f].cancelled)
              => Cardinality(LoopsOfIn(loops', f)) = 1]_vars

(***************************************************************************)
(* C6.  The registry that resetAll has emptied stays empty until the next  *)
(* startJoin: no step of a loop that is already running creates an entry.  *)
(***************************************************************************)
C6_NoEntryFromStaleLoop ==
    [][(/\ DOMAIN joinStates = {}
        /\ \E l \in Slots : Active(l) /\ loops'[l] # loops[l])
          => DOMAIN joinStates' = {}]_vars

(***************************************************************************)
(* C7.  A loop whose friend has been missing for more than 60000 ms and    *)
(* that ends at its poll leaves the entry cancelled (cancelled = TRUE,     *)
(* status cancelled).                                                      *)
(***************************************************************************)
C7_TimedOutLoopEndsCancelled ==
    [][\A l \in Slots :
          (/\ loops[l].pc = "statuses"
           /\ loops[l].missingSince # NoTime
           /\ now - loops[l].missingSince > MissingTimeout
           /\ Ends(l)
           /\ HasEntry(joinStates', loops[l].fid))
              => /\ joinStates'[loops[l].fid].cancelled
                 /\ joinStates'[loops[l].fid].status = "cancelled"]_vars

(***************************************************************************)
(* C8.  A loop with the missing timer running that finds its friend        *)
(* joinable again (getFriendConnectInfo gives a connect string, or         *)
(* getFriendsStatuses gives can_join) clears missingSince.                 *)
(***************************************************************************)
C8_MissingSinceCleared ==
    [][\A l \in Slots :
          (loops[l].missingSince # NoTime /\ FindsJoinable(l))
              => loops'[l].missingSince = NoTime]_vars

(***************************************************************************)
(* C9.  In waiting, with no missing timer running: when                    *)
(* getFriendConnectInfo gives no connect string and getFriendsStatuses     *)
(* gives can_join = true, the status stays waiting and the missing timer   *)
(* is not started.                                                         *)
(***************************************************************************)
C9_CasualWithoutConnectStaysWaiting ==
    [][\A l \in Slots :
          (/\ loops[l].pc = "statuses"
           /\ loops[l].missingSince = NoTime
           /\ HasEntry(joinStates, loops[l].fid)
           /\ joinStates[loops[l].fid].status = "waiting"
           /\ loops'[l].pc = "sleepPoll"
           /\ Len(loops'[l].statuses) > 0
           /\ loops'[l].statuses[1].can_join)
              => /\ joinStates'[loops[l].fid].status = "waiting"
                 /\ loops'[l].missingSince = NoTime]_vars

C11_WaitingBeforeNextPoll ==
    [][\A l \in Slots :
          (/\ loops[l].pc = "sleepPoll"
           /\ (loops[l].user_server # NULL \/ loops[l].friend_server # NULL)
           /\ loops'[l].pc = "connectInfo"
           /\ HasEntry(joinStates', loops[l].fid))
              => joinStates'[loops[l].fid].status = "waiting"]_vars

(***************************************************************************)
(* C12.  A loop that has set joined sleeps 1500 ms and then takes one more *)
(* step, its last: not before the 1500 ms are over, without a fetch or a   *)
(* launch, leaving the loop returned and the entry with status cancelled   *)
(* and cancelled = TRUE.                                                   *)
(***************************************************************************)
C12_JoinedHeldThenCancelled ==
    [][\A l \in Slots :
          /\ SetsJoined(l) => loops'[l].wake = now + JoinedHold
          /\ (loops[l].pc = "sleepJoined" /\ loops'[l] # loops[l])
                => /\ now >= loops[l].wake
                   /\ loops'[l].pc = "done"
                   /\ ~Fetches(l)
                   /\ ~Launches(l)
                   /\ HasEntry(joinStates', loops[l].fid)
                   /\ joinStates'[loops[l].fid].status = "cancelled"
                   /\ joinStates'[loops[l].fid].cancelled]_vars

\* the 1500 ms of a loop that has set joined are over: its last step is due
C12_Witness ==
    \E l \in Slots :
        /\ loops[l].pc = "sleepJoined"
        /\ now >= loops[l].wake
        /\ HasEntry(joinStates, loops[l].fid)
        /\ joinStates[loops[l].fid].status = "joined"

(***************************************************************************)
(* C13.  Cancelled is terminal: a step that finds an entry with status     *)
(* cancelled and leaves it in the registry with another status is a        *)
(* startJoin for that friend.                                              *)
(***************************************************************************)
C13_CancelledIsTerminal ==
    [][\A f \in Friends :
          (/\ HasEntry(joinStates, f)
           /\ joinStates[f].status = "cancelled"
           /\ HasEntry(joinStates', f)
           /\ joinStates'[f].status # "cancelled")
              => startJoin(f)]_vars

(***************************************************************************)
(* C14.  A failing fetch does not end the loop: a loop that waits for      *)
(* getFriendConnectInfo, getFriendsStatuses or getUserGameServerSteamId,   *)
(* and whose entry exists, is not ended by an exception when the call      *)
(* comes back.                                                             *)
(***************************************************************************)
C14_FetchFailureKeepsLoop ==
    [][\A l \in Slots :
          (loops[l].pc \in FetchPcs /\ HasEntry(joinStates, loops[l].fid))
              => loops'[l].pc # "threw"]_vars

(***************************************************************************)
(* C15.  Every entry with a non-terminal status (waiting, connecting,      *)
(* missing) has a running loop.                                            *)
(***************************************************************************)
C15_NonTerminalHasLoop ==
    \A f \in DOMAIN joinStates :
        joinStates[f].status \in {"waiting", "connecting", "missing"}
            => LoopsOf(f) # {}

(***************************************************************************)
(* C16.  A loop that a failing fetch ends (the response is not ok, which   *)
(* is what a rejected credential gives) leaves its entry with status       *)
(* cancelled.                                                              *)
(***************************************************************************)
C16_RejectedLoopEndsCancelled ==
    [][\A l \in Slots :
          (/\ loops[l].pc = "statuses"
           /\ HasEntry(joinStates, loops[l].fid)
           /\ Ends(l)
           /\ HasEntry(joinStates', loops[l].fid))
              => joinStates'[loops[l].fid].status = "cancelled"]_vars

(***************************************************************************)
(* C17.  A loop whose entry exists ends for one of three reasons only: it  *)
(* has set joined, its friend has been missing for more than 60000 ms, or  *)
(* its entry is cancelled.                                                 *)
(***************************************************************************)
C17_EndsForThreeReasons ==
    [][\A l \in Slots :
          (Ends(l) /\ HasEntry(joinStates, loops[l].fid))
              => \/ loops[l].pc = "sleepJoined"
                 \/ /\ loops[l].pc = "statuses"
                    /\ loops[l].missingSince # NoTime
                    /\ now - loops[l].missingSince > MissingTimeout
                    /\ loops'[l].pc = "done"
                 \/ /\ loops[l].pc = "sleepPoll"
                    /\ IsCancelled(joinStates, loops[l].fid)]_vars

(***************************************************************************)
(* C18.  The step in which an exception ends a loop changes no entry of    *)
(* the registry and no other loop.                                         *)
(***************************************************************************)
C18_ErrorLeavesOthersAlone ==
    [][\A l \in Slots :
          (Active(l) /\ loops'[l].pc = "threw")
              => /\ joinStates' = joinStates
                 /\ \A k \in Slots \ {l} : loops'[k] = loops[k]]_vars

\* an exception has ended the loop of a friend, whose entry is left with a
\* non-terminal status, while the loop of another friend runs
C18_Witness ==
    \E l \in Slots, k \in Slots, f \in DOMAIN joinStates :
        /\ loops[l].pc = "threw"
        /\ Active(k)
        /\ loops[k].fid # f
        /\ HasEntry(joinStates, loops[k].fid)
        /\ joinStates[f].status \in {"waiting", "connecting", "missing"}
        /\ LoopsOf(f) = {}

(***************************************************************************)
(* The poll interval of joinLoop(friend_id, user_steam_id, auth,           *)
(* interval_ms) for any interval_ms: line 48 computes interval, and the    *)
(* sleeps of lines 83, 90 and 105 are setTimeout(r, interval).  call holds *)
(* the argument (arg), whether line 48 has run (done), interval (out) and, *)
(* once a sleep is requested (slept), the delay handed to setTimeout.      *)
(***************************************************************************)
\* the configured values range over -MaxConfigured..MaxConfigured
MaxConfigured == 150

\* the values of the parameter interval_ms, the one startJoin passes included
ConfiguredIntervals == (-MaxConfigured..MaxConfigured) \cup {interval_ms}

InitInterval ==
    /\ joinStates = EmptyRegistry
    /\ loops = [l \in Slots |-> IdleLoop]
    /\ now = interval_ms
    /\ ticks = 0
    /\ call \in {[fn |-> "joinLoop", arg |-> ms, done |-> FALSE, out |-> 0,
                   slept |-> FALSE, delay |-> 0] : ms \in ConfiguredIntervals}

\* let interval = Math.max(100, interval_ms)
joinLoop_interval ==
    /\ call.fn = "joinLoop"
    /\ ~call.done
    /\ call' = [call EXCEPT !.done = TRUE, !.out = Interval(call.arg)]
    /\ UNCHANGED <<joinStates, loops, now, ticks>>

\* await new Promise(r => setTimeout(r, interval))
joinLoop_sleep ==
    /\ call.fn = "joinLoop"
    /\ call.done
    /\ ~call.slept
    /\ call' = [call EXCEPT !.slept = TRUE, !.delay = call.out]
    /\ UNCHANGED <<joinStates, loops, now, ticks>>

NextInterval ==
    \/ joinLoop_interval
    \/ joinLoop_sleep

SpecInterval == InitInterval /\ [][NextInterval]_vars

(***************************************************************************)
(* C19.  For every configured integer interval_ms the interval of the loop *)
(* is the larger of 100 and interval_ms: interval_ms itself from 100 on,   *)
(* 100 below; and no sleep of the loop is asked to last less than 100 ms.  *)
(***************************************************************************)
C19_IntervalClamped ==
    /\ (call.fn = "joinLoop" /\ call.done)
          => /\ call.out >= MinInterval
             /\ call.arg >= MinInterval => call.out = call.arg
             /\ call.arg < MinInterval => call.out = MinInterval
    /\ (call.fn = "joinLoop" /\ call.slept) => call.delay >= MinInterval

\* a loop configured with less than 100 ms has asked for its sleep
C19_Witness ==
    /\ call.fn = "joinLoop"
    /\ call.slept
    /\ call.arg < MinInterval
    /\ call.delay = MinInterval

(***************************************************************************)
(* parseRichPresence(kv) of src/js/steam-api.js.  A presence blob is text  *)
(* of quoted strings separated by white space, "key" "value" "key"         *)
(* "value" ...; it is modelled as the sequence of its quoted strings, so   *)
(* that the strings 2j-1 and 2j are the j-th pair.  The regular expression *)
(* of extract, "key"\s+"([^"]+)", knows no pairs: it matches the leftmost  *)
(* quoted string equal to key that a non-empty quoted string follows,      *)
(* whatever the position of the two in the blob.                           *)
(***************************************************************************)
\* quoted strings of one blob
MaxTokens == 4

\* the quoted strings a blob is made of: keys, values and the empty string
PresenceTokens ==
    {"status", "game:mode", "game:state", "connect",
     "casual", "lobby", "+gcconnect", ""}

\* the blobs of up to MaxTokens quoted strings
PresenceBlobs == UNION {[1..n -> PresenceTokens] : n \in 0..MaxTokens}

\* the fields of the object parseRichPresence returns, with the key of each
FieldKey ==
    [status |-> "status",
     game_state |-> "game:state",
     game_mode |-> "game:mode",
     game_map |-> "game:map",
     game_score |-> "game:score",
     connect |-> "connect",
     game_server_steam_id |-> "game_server_steam_id"]

\* kv.match(re): the positions where the regular expression matches
Matches(kv, key) ==
    {i \in 1..(Len(kv) - 1) : kv[i] = key /\ kv[i + 1] # ""}

\* function extract(key): m ? m[1] : null, m the leftmost match
extract(kv, key) ==
    IF Matches(kv, key) = {}
    THEN NULL
    ELSE LET i == CHOOSE x \in Matches(kv, key) :
                      \A y \in Matches(kv, key) : x <= y
         IN kv[i + 1]

parseRichPresence(kv) == [field \in DOMAIN FieldKey |-> extract(kv, FieldKey[field])]

\* the blob has a pair whose key is key
HasPair(kv, key) == \E j \in 1..(Len(kv) \div 2) : kv[2 * j - 1] = key

InitPresence ==
    /\ joinStates = EmptyRegistry
    /\ loops = [l \in Slots |-> IdleLoop]
    /\ now = interval_ms
    /\ ticks = 0
    /\ call \in {[fn |-> "parseRichPresence", arg |-> kv, done |-> FALSE,
                   out |-> parseRichPresence(<<>>)] : kv \in PresenceBlobs}

\* const rp = parseRichPresence(rich_presence_kv)
parseRichPresence_call ==
    /\ call.fn = "parseRichPresence"
    /\ ~call.done
    /\ call' = [call EXCEPT !.done = TRUE, !.out = parseRichPresence(call.arg)]
    /\ UNCHANGED <<joinStates, loops, now, ticks>>

NextPresence == parseRichPresence_call

SpecPresence == InitPresence /\ [][NextPresence]_vars

(***************************************************************************)
(* C20.  For every blob and every field: when the blob has no pair for the *)
(* key of the field, parseRichPresence returns null for the field.         *)
(* (parseRichPresence has no throw, and match on a string raises nothing.) *)
(***************************************************************************)
C20_MissingKeyDecodesNull ==
    (call.fn = "parseRichPresence" /\ call.done)
        => \A field \in DOMAIN FieldKey :
              ~HasPair(call.arg, FieldKey[field]) => call.out[field] = NULL

(***************************************************************************)
(* The status object getFriendsStatuses builds for one account             *)
(* (steam-api.js, lines 157-185): the blob of the account is decoded by    *)
(* parseRichPresence, and can_join and join_available are computed from    *)
(* the decoded presence rp.  The blobs here are made of whole pairs.       *)
(***************************************************************************)
\* pairs of one blob
MaxPairs == 3

\* the keys can_join and join_available depend on
StatusKeys == {"game:mode", "game:state", "connect"}

\* values of those keys
StatusValues ==
    {"casual", "competitive", "lobby", "game", "", "+gcconnect", "+gcconnect:1"}

\* the quoted strings of a sequence of pairs, in the order of the text
FlattenPairs(ps) ==
    [i \in 1..(2 * Len(ps)) |->
        IF i % 2 = 1 THEN ps[(i + 1) \div 2][1] ELSE ps[i \div 2][2]]

\* priv.rich_presence_kv || "": the blobs of up to MaxPairs pairs
StatusBlobs ==
    UNION {{FlattenPairs(ps) : ps \in [1..n -> StatusKeys \X StatusValues]} :
              n \in 0..MaxPairs}

\* the characters of a string, in pieces no longer than the prefix tested
Text(str) ==
    CASE str = "" -> <<>>
      [] str = "+gcconnect" -> <<"+gcconnect">>
      [] str = "+gcconnect:1" -> <<"+gcconnect", ":1">>
      [] OTHER -> <<str>>

\* str.startsWith(prefix)
startsWith(str, prefix) ==
    /\ Len(Text(prefix)) <= Len(Text(str))
    /\ SubSeq(Text(str), 1, Len(Text(prefix))) = Text(prefix)

\* can_join without the test of game_state
can_join_anyState(rp) == rp.game_mode = "casual"

\* const can_join = rp.game_mode === "casual"
\*                   && !["", null, "lobby"].includes(rp.game_state)
can_join(rp) ==
    rp.game_mode = "casual" /\ rp.game_state \notin {"", NULL, "lobby"}

\* const connect_val = rp.connect || ""
connect_val(rp) == IF rp.connect = NULL THEN "" ELSE rp.connect

\* join_available without can_join
join_available_prefixOnly(rp) == startsWith(connect_val(rp), "+gcconnect")

\* const join_available = can_join && connect_val.startsWith("+gcconnect")
join_available(rp) == can_join(rp) /\ startsWith(connect_val(rp), "+gcconnect")

\* the object the map callback returns, with the decoded presence it is
\* computed from
FriendStatus(kv) ==
    LET rp == parseRichPresence(kv) IN
    [rp |-> rp,
     can_join |-> can_join(rp),
     join_available |-> join_available(rp),
     connect |-> connect_val(rp)]

InitStatus ==
    /\ joinStates = EmptyRegistry
    /\ loops = [l \in Slots |-> IdleLoop]
    /\ now = interval_ms
    /\ ticks = 0
    /\ call \in {[fn |-> "getFriendsStatuses", arg |-> kv, done |-> FALSE,
                   out |-> FriendStatus(<<>>)] : kv \in StatusBlobs}

\* .map(acc => { ... return { ..., can_join, join_available, ... } })
getFriendsStatuses_map ==
    /\ call.fn = "getFriendsStatuses"
    /\ ~call.done
    /\ call' = [call EXCEPT !.done = TRUE, !.out = FriendStatus(call.arg)]
    /\ UNCHANGED <<joinStates, loops, now, ticks>>

NextStatus == getFriendsStatuses_map

SpecStatus == InitStatus /\ [][NextStatus]_vars

(***************************************************************************)
(* C21.  For every decoded presence: can_join is true if and only if       *)
(* game_mode is "casual" and game_state is neither null nor the empty      *)
(* string nor "lobby".                                                     *)
(***************************************************************************)
C21_CanJoinIffCasualInGame ==
    (call.fn = "getFriendsStatuses" /\ call.done)
        => (call.out.can_join
              <=> /\ call.out.rp.game_mode = "casual"
                  /\ call.out.rp.game_state # NULL
                  /\ call.out.rp.game_state # ""
                  /\ call.out.rp.game_state # "lobby")

\* a casual friend in a match has been decoded
C21_Witness ==
    /\ call.fn = "getFriendsStatuses"
    /\ call.done
    /\ call.out.rp.game_mode = "casual"
    /\ call.out.rp.game_state = "game"
    /\ call.out.can_join

(***************************************************************************)
(* C22.  For every decoded presence: join_available is true if and only if *)
(* can_join is true and the connect string starts with "+gcconnect"; so    *)
(* join_available implies can_join, and a presence without a connect       *)
(* string has join_available false.                                        *)
(***************************************************************************)
C22_JoinAvailableIffPrefixed ==
    (call.fn = "getFriendsStatuses" /\ call.done)
        => /\ call.out.join_available
                <=> /\ call.out.can_join
                    /\ call.out.rp.connect # NULL
                    /\ startsWith(call.out.rp.connect, "+gcconnect")
           /\ call.out.join_available => call.out.can_join
           /\ call.out.rp.connect = NULL => ~call.out.join_available

\* a joinable friend has been decoded whose connect string has the prefix and
\* more text after it
C22_Witness ==
    /\ call.fn = "getFriendsStatuses"
    /\ call.done
    /\ call.out.can_join
    /\ call.out.rp.connect = "+gcconnect:1"
    /\ call.out.join_available

(***************************************************************************)
(* The requests of getFriendsStatuses(friend_ids, auth, avatarsCache)      *)
(* (steam-api.js, lines 131-190): one GetPlayerLinkDetails request with    *)
(* every id of friend_ids, and, when avatarsCache is empty, the requests   *)
(* of getPlayerSummaries (lines 79-122), one per chunk of 100 ids.  call   *)
(* holds the number of ids (ids), whether avatarsCache has avatars         *)
(* (cached), the place in the code (pc), the number of ids of the          *)
(* GetPlayerLinkDetails request (sent), the offset and size of the chunk   *)
(* of getPlayerSummaries that is under way (i, chunk), the number of       *)
(* avatars fetched (avatars) and of accounts returned (result).            *)
(***************************************************************************)
\* chunks that the longest friend_ids fills
MaxChunks == 2

\* steamids.slice(i, i + 100)
ChunkSize == 100

Min(a, b) == IF a <= b THEN a ELSE b

\* friend_ids.length
IdCounts == 0..(MaxChunks * ChunkSize + 1)

InitFetchStatuses ==
    /\ joinStates = EmptyRegistry
    /\ loops = [l \in Slots |-> IdleLoop]
    /\ now = interval_ms
    /\ ticks = 0
    /\ call \in {[fn |-> "getFriendsStatuses:requests", ids |-> n, cached |-> c,
                   pc |-> "start", sent |-> 0, i |-> 0, chunk |-> 0,
                   avatars |-> 0, result |-> 0] :
                      n \in IdCounts, c \in BOOLEAN}

\* if (!friend_ids.length) return []; otherwise the request with all ids:
\* friend_ids.forEach((sid, idx) => params.append(...)); await fetch(url)
getFriendsStatuses_fetch ==
    /\ call.fn = "getFriendsStatuses:requests"
    /\ call.pc = "start"
    /\ call' = IF call.ids = 0
               THEN [call EXCEPT !.pc = "returned"]
               ELSE [call EXCEPT !.pc = "response", !.sent = call.ids]
    /\ UNCHANGED <<joinStates, loops, now, ticks>>

\* the response arrives: if (!resp.ok) throw ...; the accounts of the ids;
\* with an empty avatarsCache getPlayerSummaries and its first chunk
getFriendsStatuses_response(ok) ==
    /\ call.fn = "getFriendsStatuses:requests"
    /\ call.pc = "response"
    /\ call' = IF ~ok
               THEN [call EXCEPT !.pc = "threw"]
               ELSE IF call.cached
               THEN [call EXCEPT !.pc = "returned", !.result = call.sent]
               ELSE [call EXCEPT !.pc = "summaries", !.i = 0,
                                 !.chunk = Min(ChunkSize, call.sent)]
    /\ UNCHANGED <<joinStates, loops, now, ticks>>

\* the response of a chunk arrives: if (!resp.ok) continue; otherwise the
\* players of the chunk; i += 100 and the next chunk, or the return
getPlayerSummaries_response(ok) ==
    /\ call.fn = "getFriendsStatuses:requests"
    /\ call.pc = "summaries"
    /\ LET fetched == call.avatars + (IF ok THEN call.chunk ELSE 0)
           next == call.i + ChunkSize
       IN call' = IF next < call.sent
                  THEN [call EXCEPT !.avatars = fetched, !.i = next,
                                    !.chunk = Min(ChunkSize, call.sent - next)]
                  ELSE [call EXCEPT !.avatars = fetched, !.i = next, !.chunk = 0,
                                    !.pc = "returned", !.result = call.sent]
    /\ UNCHANGED <<joinStates, loops, now, ticks>>

NextFetchStatuses ==
    \/ getFriendsStatuses_fetch
    \/ \E ok \in BOOLEAN : getFriendsStatuses_response(ok)
    \/ \E ok \in BOOLEAN : getPlayerSummaries_response(ok)

SpecFetchStatuses == InitFetchStatuses /\ [][NextFetchStatuses]_vars

(***************************************************************************)
(* C23.  getFriendsStatuses asks for the statuses in requests of at most   *)
(* 100 ids each, and a request that fails does not end the call with an    *)
(* exception.                                                              *)
(***************************************************************************)
C23_SubBatchFailureTolerated ==
    call.fn = "getFriendsStatuses:requests"
        => /\ call.sent <= ChunkSize
           /\ call.pc # "threw"

(***************************************************************************)
(* What the operations of steam-api.js hand to their caller for one        *)
(* response of the Steam API.  A response is not ok with an HTTP status,   *)
(* or ok with a body that holds no data for the operation (no friends      *)
(* list, no accounts) or that holds data.  The outcome is an exception     *)
(* (threw, with its message and the status the message carries, 0 for      *)
(* none) or a returned value.                                              *)
(***************************************************************************)
\* resp.status of a response that is not ok
HttpErrors == {400, 401, 403, 429, 500, 503}

Responses ==
    {[ok |-> FALSE, status |-> c, data |-> "none"] : c \in HttpErrors}
    \cup {[ok |-> TRUE, status |-> 200, data |-> d] : d \in {"none", "some"}}

FetchOperations ==
    {"getFriendsList", "getFriendsStatuses", "getFriendConnectInfo",
     "getUserGameServerSteamId"}

Thrown(msg, status) == [threw |-> TRUE, msg |-> msg, status |-> status, value |-> NULL]
Returned(v) == [threw |-> FALSE, msg |-> "", status |-> 0, value |-> v]

\* getFriendsList(steam_id, auth)
getFriendsList(isToken, resp) ==
    IF ~isToken /\ resp.status = 401 THEN Thrown("PRIVATE_FRIENDS_LIST", 0)
    ELSE IF ~resp.ok THEN Thrown("API_ERROR_", resp.status)
    ELSE IF resp.data = "none" THEN Thrown("EMPTY_FRIENDS_LIST", 0)
    ELSE Returned("friends")

\* getFriendsStatuses(friend_ids, auth) with friend_ids not empty
getFriendsStatuses(resp) ==
    IF ~resp.ok
    THEN Thrown("Failed to fetch player link details: ", resp.status)
    ELSE IF resp.data = "none" THEN Returned("[]")
    ELSE Returned("statuses")

\* getFriendConnectInfo(friend_id, auth): if (!resp.ok) return null
getFriendConnectInfo(resp) ==
    IF ~resp.ok THEN Returned(NULL)
    ELSE IF resp.data = "none" THEN Returned(NULL)
    ELSE Returned("+gcconnect")

\* getUserGameServerSteamId(steam_id, auth): if (!resp.ok) return null
getUserGameServerSteamId(resp) ==
    IF ~resp.ok THEN Returned(NULL)
    ELSE IF resp.data = "none" THEN Returned(NULL)
    ELSE Returned("s1")

Outcome(op, isToken, resp) ==
    CASE op = "getFriendsList" -> getFriendsList(isToken, resp)
      [] op = "getFriendsStatuses" -> getFriendsStatuses(resp)
      [] op = "getFriendConnectInfo" -> getFriendConnectInfo(resp)
      [] op = "getUserGameServerSteamId" -> getUserGameServerSteamId(resp)

InitFetch ==
    /\ joinStates = EmptyRegistry
    /\ loops = [l \in Slots |-> IdleLoop]
    /\ now = interval_ms
    /\ ticks = 0
    /\ call \in {[fn |-> "fetch", op |-> op, isToken |-> t, resp |-> r,
                   done |-> FALSE, out |-> Returned(NULL)] :
                      op \in FetchOperations, t \in BOOLEAN, r \in Responses}

\* const resp = await fetch(url); ... up to the return or the throw
fetch_response ==
    /\ call.fn = "fetch"
    /\ ~call.done
    /\ call' = [call EXCEPT !.done = TRUE,
                            !.out = Outcome(call.op, call.isToken, call.resp)]
    /\ UNCHANGED <<joinStates, loops, now, ticks>>

NextFetch == fetch_response

SpecFetch == InitFetch /\ [][NextFetch]_vars

(***************************************************************************)
(* C24.  For every operation: a response that is not ok reaches the caller *)
(* as an exception that carries the HTTP status (PRIVATE_FRIENDS_LIST      *)
(* stands for 401), so never as the value a response without data gives.   *)
(***************************************************************************)
C24_TransportFailureIsError ==
    (call.fn = "fetch" /\ call.done /\ ~call.resp.ok)
        => /\ call.out.threw
           /\ \/ call.out.status = call.resp.status
              \/ call.out.msg = "PRIVATE_FRIENDS_LIST" /\ call.resp.status = 401

(***************************************************************************)
(* getJoinStates() of join-manager.js, return { ...joinStates }: a new     *)
(* object with the keys of the registry, whose values are the entry        *)
(* objects of the registry themselves.  call holds the object returned     *)
(* last (snapshot), the keys under which it still holds the very object    *)
(* the registry holds (alias), and the operation of the last step (op).    *)
(* The registry changes as the join manager changes it: startJoin and      *)
(* cancelJoin put a new object under a key, joinLoop assigns to a field    *)
(* of the object that is there, resetAll deletes the keys.                 *)
(***************************************************************************)
\* the operations of the join manager on the registry
RegistryOps == {"startJoin", "cancelJoin", "joinLoop", "resetAll"}
\* what the caller of getJoinStates does to the object it got
CallerOps == {"addKey", "deleteKey", "setField"}

\* joinStates[friend_id].status = ... of lines 68, 86, 95 and 108
LoopWrites == {"missing", "connecting", "joined", "cancelled"}

DropKey(js, f) == [g \in DOMAIN js \ {f} |-> js[g]]

InitSnapshot ==
    /\ joinStates = EmptyRegistry
    /\ loops = [l \in Slots |-> IdleLoop]
    /\ now = interval_ms
    /\ ticks = 0
    /\ call = [fn |-> "getJoinStates", taken |-> FALSE,
               snapshot |-> EmptyRegistry, alias |-> {}, op |-> "none"]

\* joinStates[friend_id] = { status: 'waiting', cancelled: false, ... }
registry_startJoin(f) ==
    /\ call.fn = "getJoinStates"
    /\ joinStates' = SetEntry(joinStates, f, NewEntry)
    /\ call' = [call EXCEPT !.alias = call.alias \ {f}, !.op = "startJoin"]
    /\ UNCHANGED <<loops, now, ticks>>

\* joinStates[friend_id] = { ...joinStates[friend_id], status: 'cancelled', ... }
registry_cancelJoin(f) ==
    /\ call.fn = "getJoinStates"
    /\ joinStates' = cancelJoinStates(joinStates, f)
    /\ call' = [call EXCEPT !.alias = call.alias \ {f}, !.op = "cancelJoin"]
    /\ UNCHANGED <<loops, now, ticks>>

\* joinStates[friend_id].status = st, on the object the registry holds
registry_joinLoop(f, st) ==
    /\ call.fn = "getJoinStates"
    /\ HasEntry(joinStates, f)
    /\ joinStates' = SetStatus(joinStates, f, st)
    /\ call' = [call EXCEPT
                   !.snapshot = IF f \in call.alias
                                THEN SetStatus(call.snapshot, f, st)
                                ELSE call.snapshot,
                   !.op = "joinLoop"]
    /\ UNCHANGED <<loops, now, ticks>>

\* delete joinStates[fid] for every key
registry_resetAll ==
    /\ call.fn = "getJoinStates"
    /\ joinStates' = EmptyRegistry
    /\ call' = [call EXCEPT !.alias = {}, !.op = "resetAll"]
    /\ UNCHANGED <<loops, now, ticks>>

\* return { ...joinStates }
getJoinStates ==
    /\ call.fn = "getJoinStates"
    /\ call' = [call EXCEPT !.taken = TRUE, !.snapshot = joinStates,
                            !.alias = DOMAIN joinStates, !.op = "getJoinStates"]
    /\ UNCHANGED <<joinStates, loops, now, ticks>>

\* the caller: snapshot[f] = a new object
caller_addKey(f) ==
    /\ call.fn = "getJoinStates"
    /\ call.taken
    /\ call' = [call EXCEPT !.snapshot = SetEntry(call.snapshot, f, NewEntry),
                            !.alias = call.alias \ {f}, !.op = "addKey"]
    /\ UNCHANGED <<joinStates, loops, now, ticks>>

\* the caller: delete snapshot[f]
caller_deleteKey(f) ==
    /\ call.fn = "getJoinStates"
    /\ call.taken
    /\ HasEntry(call.snapshot, f)
    /\ call' = [call EXCEPT !.snapshot = DropKey(call.snapshot, f),
                            !.alias = call.alias \ {f}, !.op = "deleteKey"]
    /\ UNCHANGED <<joinStates, loops, now, ticks>>

\* the caller: snapshot[f].status = st, on the object the snapshot holds
caller_setField(f, st) ==
    /\ call.fn = "getJoinStates"
    /\ call.taken
    /\ HasEntry(call.snapshot, f)
    /\ call' = [call EXCEPT !.snapshot = SetStatus(call.snapshot, f, st),
                            !.op = "setField"]
    /\ joinStates' = IF f \in call.alias
                     THEN SetStatus(joinStates, f, st)
                     ELSE joinStates
    /\ UNCHANGED <<loops, now, ticks>>

NextSnapshot ==
    \/ \E f \in Friends : registry_startJoin(f)
    \/ \E f \in Friends : registry_cancelJoin(f)
    \/ \E f \in Friends, st \in LoopWrites : registry_joinLoop(f, st)
    \/ registry_resetAll
    \/ getJoinStates
    \/ \E f \in Friends : caller_addKey(f)
    \/ \E f \in Friends : caller_deleteKey(f)
    \/ \E f \in Friends, st \in Statuses : caller_setField(f, st)

SpecSnapshot == InitSnapshot /\ [][NextSnapshot]_vars

(***************************************************************************)
(* C25.  The object getJoinStates returned is a copy: nothing the caller   *)
(* does to it (adding a key, deleting a key, assigning to a field of an    *)
(* entry) changes the registry, and nothing the join manager does to the   *)
(* registry afterwards changes it.                                         *)
(***************************************************************************)
C25_SnapshotIsACopy ==
    [][/\ call'.op \in CallerOps => joinStates' = joinStates
       /\ (call.taken /\ call'.op \in RegistryOps)
             => call'.snapshot = call.snapshot]_vars

(***************************************************************************)
(* C26.  A loop keeps the auth it was called with (the parameter of        *)
(* joinLoop), and the handler of the credential input calls resetAll.  A   *)
(* running loop whose entry is gone was started before that resetAll, with *)
(* the credential of before: it makes no further fetch.                    *)
(***************************************************************************)
C26_NoFetchAfterReset ==
    [][\A l \in Slots :
          (Active(l) /\ ~HasEntry(joinStates, loops[l].fid)) => ~Fetches(l)]_vars

(***************************************************************************)
(* joinLoop with its display fields (lines 56-85) and its launches (lines   *)
(* 86-89).  One invocation of joinLoop is followed, with its local         *)
(* variables and the urls it has passed to open() in call; the registry is *)
(* joinStates, whose entries get the fields personaname and avatar from    *)
(* lines 69-70; the clock is now.  The other tasks are the calls of the    *)
(* UI: startJoin, cancelJoin and resetAll.                                 *)
(***************************************************************************)
\* pub.persona_name || "" of the status objects of getFriendsStatuses
Personas == {"", "Ann", "Bob"}

\* avatarMap[steamid]?.avatarfull || avatarMap[steamid]?.avatar || ""
Avatars == {"", "a.png", "b.png"}

\* the status objects, by the two properties that lines 65-66 read
DisplayStatuses == [personaname : Personas, avatar : Avatars]

\* outcomes of await getFriendsStatuses([friend_id], auth), as StatusesResults
DisplayResults ==
    {[threw |-> TRUE, list |-> <<>>], [threw |-> FALSE, list |-> <<>>]}
    \cup {[threw |-> FALSE, list |-> <<fs>>] : fs \in DisplayStatuses}

\* a || b on strings, null and undefined
OrElse(a, b) == IF a \in {NULL, ""} THEN b ELSE a

\* friendStatus?.key, where friendStatus = statuses.length ? statuses[0] : null
StatusField(list, key) == IF Len(list) > 0 THEN list[1][key] ELSE NULL

\* joinStates[friend_id]?.key
EntryField(js, f, key) ==
    IF HasEntry(js, f) /\ key \in DOMAIN js[f] THEN js[f][key] ELSE NULL

\* missingSince = Date.now(); lastKnownPersona = ...; lastKnownAvatar = ...
Taken(c, list, js, t) ==
    [c EXCEPT !.missingSince = t,
              !.lastKnownPersona =
                  OrElse(OrElse(StatusField(list, "personaname"),
                                EntryField(js, c.fid, "personaname")), "Unknown"),
              !.lastKnownAvatar =
                  OrElse(OrElse(StatusField(list, "avatar"),
                                EntryField(js, c.fid, "avatar")), "")]

\* Detect without the test of missingSince
Detect_everyPoll(c, list, js, t) == Taken(c, list, js, t)

\* if (!missingSince) { ... }
Detect(c, list, js, t) ==
    IF c.missingSince = NoTime THEN Taken(c, list, js, t) ELSE c

\* status = "missing"; personaname = lastKnownPersona; avatar = lastKnownAvatar
SetMissing(js, f, persona, avatar) ==
    [js EXCEPT ![f] =
        [k \in DOMAIN js[f] \cup {"personaname", "avatar"} |->
            CASE k = "status" -> "missing"
              [] k = "personaname" -> persona
              [] k = "avatar" -> avatar
              [] OTHER -> js[f][k]]]

\* what getFriendConnectInfo resolves to: null, or the connect value of the
\* friend's rich presence at the time of the request
ConnectStrings == {NULL, "+gcconnect:1", "+gcconnect:2"}

\* url with the connect string of the loop's first launch, kept for later ones
url_reused(f, current_connect) ==
    IF Len(call.opened) > 0
    THEN call.opened[1]
    ELSE <<"steam://rungame/730", f, current_connect>>

\* `steam://rungame/730/${friend_id}/${current_connect}`
url(f, current_connect) == <<"steam://rungame/730", f, current_connect>>

\* the locals of an invocation of joinLoop that has not begun, and the urls
\* it has passed to open()
NoLoop ==
    [fn |-> "joinLoop", fid |-> "none", pc |-> "idle", missingSince |-> NoTime,
     lastKnownPersona |-> NULL, lastKnownAvatar |-> NULL, statuses |-> <<>>,
     current_connect |-> NULL, opened |-> <<>>, wake |-> 0]

InitMissing ==
    /\ joinStates = EmptyRegistry
    /\ loops = [l \in Slots |-> IdleLoop]
    /\ now = interval_ms
    /\ ticks = 0
    /\ call = NoLoop

\* startJoin(friend_id); the invocation it makes is followed when no other is
missing_startJoin(f) ==
    /\ joinStates' = SetEntry(joinStates, f, NewEntry)
    /\ call' = IF call.pc \in FreePcs
               THEN [NoLoop EXCEPT !.fid = f, !.pc = "connectInfo"]
               ELSE call
    /\ UNCHANGED <<loops, now, ticks>>

\* top of the while, after a sleep of interval
missing_sleepPoll ==
    /\ call.pc = "sleepPoll"
    /\ now >= call.wake
    /\ IF IsCancelled(joinStates, call.fid)
       THEN /\ joinStates' = ExitStates(joinStates, call.fid)
            /\ call' = [call EXCEPT !.pc = ExitPc(joinStates, call.fid)]
       ELSE \* the constants of the last iteration are out of scope
            /\ call' = [call EXCEPT !.pc = "connectInfo", !.statuses = <<>>,
                                    !.current_connect = NULL, !.wake = 0]
            /\ UNCHANGED joinStates
    /\ UNCHANGED <<loops, now, ticks>>

\* current_connect = await SteamAPI.getFriendConnectInfo(...) resolves to c
missing_connectInfo(c) ==
    /\ call.pc = "connectInfo"
    /\ IF c = NULL
       THEN /\ call' = [call EXCEPT !.pc = "statuses", !.current_connect = c]
            /\ UNCHANGED joinStates
       ELSE IF ~HasEntry(joinStates, call.fid)
       THEN \* the TypeError of line 86
            /\ call' = [call EXCEPT !.pc = "threw", !.current_connect = c]
            /\ UNCHANGED joinStates
       ELSE \* status = "connecting"; open(url, "_self"); await sleep(interval)
            /\ joinStates' = SetStatus(joinStates, call.fid, "connecting")
            /\ call' = [call EXCEPT !.pc = "sleepConnect",
                                    !.current_connect = c,
                                    !.opened = Append(@, url(call.fid, c)),
                                    !.wake = now + Interval(interval_ms)]
    /\ UNCHANGED <<loops, now, ticks>>

\* statuses = await SteamAPI.getFriendsStatuses([friend_id], auth) settles
missing_statuses(r) ==
    /\ call.pc = "statuses"
    /\ LET f == call.fid
           casual == Len(r.list) > 0 /\ in_casual_mode(r.list[1])
           got == [call EXCEPT !.statuses = r.list]
           det == Detect(got, r.list, joinStates, now)
           missing == SetMissing(joinStates, f, det.lastKnownPersona,
                                 det.lastKnownAvatar)
           timedOut == cancelJoinStates(missing, f)
       IN
        IF r.threw
        THEN /\ call' = [call EXCEPT !.pc = "threw"]
             /\ UNCHANGED joinStates
        ELSE IF ~casual /\ ~HasEntry(joinStates, f)
        THEN \* lines 62-67, then the TypeError of line 68
             /\ call' = [det EXCEPT !.pc = "threw"]
             /\ UNCHANGED joinStates
        ELSE IF ~casual /\ now - det.missingSince > MissingTimeout
        THEN /\ joinStates' = ExitStates(timedOut, f)
             /\ call' = [det EXCEPT !.pc = "done"]
        ELSE IF ~casual
        THEN /\ joinStates' = missing
             /\ call' = [det EXCEPT !.pc = "sleepPoll",
                                    !.wake = now + Interval(interval_ms)]
        ELSE IF ~HasEntry(joinStates, f)
        THEN \* lines 78-80, then the TypeError of line 81
             /\ call' = [got EXCEPT !.missingSince = NoTime,
                                    !.lastKnownPersona = r.list[1].personaname,
                                    !.lastKnownAvatar = r.list[1].avatar,
                                    !.pc = "threw"]
             /\ UNCHANGED joinStates
        ELSE /\ joinStates' = SetStatus(joinStates, f, "waiting")
             /\ call' = [got EXCEPT !.missingSince = NoTime,
                                    !.lastKnownPersona = r.list[1].personaname,
                                    !.lastKnownAvatar = r.list[1].avatar,
                                    !.pc = "sleepPoll",
                                    !.wake = now + Interval(interval_ms)]
    /\ UNCHANGED <<loops, now, ticks>>

\* lines 90-99 after the sleep: the two calls of getUserGameServerSteamId
\* (the registry is not read between them) and the comparison of line 94
missing_servers(same) ==
    /\ call.pc = "sleepConnect"
    /\ now >= call.wake
    /\ IF ~same
       THEN /\ call' = [call EXCEPT !.pc = "sleepPoll",
                                    !.wake = now + Interval(interval_ms)]
            /\ UNCHANGED joinStates
       ELSE IF ~HasEntry(joinStates, call.fid)
       THEN /\ call' = [call EXCEPT !.pc = "threw"]
            /\ UNCHANGED joinStates
       ELSE /\ joinStates' = CancelOthersStates(
                                 SetStatus(joinStates, call.fid, "joined"),
                                 call.fid)
            /\ call' = [call EXCEPT !.pc = "sleepJoined",
                                    !.wake = now + JoinedHold]
    /\ UNCHANGED <<loops, now, ticks>>

\* lines 101-109: after the hold, cancelJoin(friend_id); break
missing_sleepJoined ==
    /\ call.pc = "sleepJoined"
    /\ now >= call.wake
    /\ joinStates' = ExitStates(cancelJoinStates(joinStates, call.fid), call.fid)
    /\ call' = [call EXCEPT !.pc = "done"]
    /\ UNCHANGED <<loops, now, ticks>>

\* the UI calls cancelJoin or resetAll, or the clock advances
NextMissing ==
    \/ \E f \in Friends : missing_startJoin(f)
    \/ \E f \in Friends : cancelJoin(f)
    \/ resetAll
    \/ missing_sleepPoll
    \/ \E c \in ConnectStrings : missing_connectInfo(c)
    \/ \E r \in DisplayResults : missing_statuses(r)
    \/ \E same \in BOOLEAN : missing_servers(same)
    \/ missing_sleepJoined
    \/ \E d \in TickSteps : Tick(d)

SpecMissing == InitMissing /\ [][NextMissing]_vars

\* the poll of this step found the friend not joinable and the loop went on
\* past line 70
DetectsMissing ==
    /\ call.fn = "joinLoop"
    /\ call.pc = "statuses"
    /\ call'.pc \in {"sleepPoll", "done"}
    /\ ~(Len(call'.statuses) > 0 /\ in_casual_mode(call'.statuses[1]))

(***************************************************************************)
(* C27.  A poll that finds the friend not joinable while missingSince is   *)
(* unset sets it to the time of that poll and takes the display name and   *)
(* the avatar then; a poll that finds the friend not joinable while        *)
(* missingSince is set (every later one of a run of such polls) leaves     *)
(* missingSince, the cached name and the cached avatar as they are.        *)
(***************************************************************************)
C27_FirstDetectionKept ==
    [][DetectsMissing =>
          IF call.missingSince = NoTime
          THEN /\ call'.missingSince = now
               /\ call'.lastKnownPersona =
                      OrElse(OrElse(StatusField(call'.statuses, "personaname"),
                                    EntryField(joinStates, call.fid, "personaname")),
                             "Unknown")
               /\ call'.lastKnownAvatar =
                      OrElse(OrElse(StatusField(call'.statuses, "avatar"),
                                    EntryField(joinStates, call.fid, "avatar")),
                             "")
          ELSE /\ call'.missingSince = call.missingSince
               /\ call'.lastKnownPersona = call.lastKnownPersona
               /\ call'.lastKnownAvatar = call.lastKnownAvatar]_vars

\* the loop sleeps after a poll that found the friend not joinable, later
\* than the first such poll and with another name and avatar than the cached
C27_Witness ==
    /\ call.fn = "joinLoop"
    /\ call.pc = "sleepPoll"
    /\ call.missingSince # NoTime
    /\ call.wake - Interval(interval_ms) > call.missingSince
    /\ StatusField(call.statuses, "personaname")
           \notin {NULL, "", call.lastKnownPersona}
    /\ StatusField(call.statuses, "avatar")
           \notin {NULL, "", call.lastKnownAvatar}
    /\ EntryField(joinStates, call.fid, "personaname") = call.lastKnownPersona

\* the loop passes a url to open() in this step
Opens ==
    /\ call.fn = "joinLoop"
    /\ Len(call'.opened) > Len(call.opened)

(***************************************************************************)
(* C28.  Whenever the loop passes a url to open(), the step is the one in  *)
(* which getFriendConnectInfo of the current iteration resolved, the       *)
(* connect string in the url is what that call resolved to and is not      *)
(* null, and the step leaves the entry's status 'connecting'.              *)
(***************************************************************************)
C28_LaunchUsesFreshConnect ==
    [][Opens =>
          /\ call.pc = "connectInfo"
          /\ call.current_connect = NULL
          /\ call'.current_connect # NULL
          /\ call'.opened = Append(call.opened,
                 <<"steam://rungame/730", call.fid, call'.current_connect>>)
          /\ HasEntry(joinStates', call.fid)
          /\ joinStates'[call.fid].status = "connecting"]_vars

\* the loop has launched twice, with the connect strings of two iterations
C28_Witness ==
    /\ call.fn = "joinLoop"
    /\ Len(call.opened) >= 2
    /\ call.opened[1][3] # call.opened[2][3]
    /\ call.current_connect = call.opened[2][3]

\* the friends whose entry has the status 'joined'
JoinedEntries == {f \in DOMAIN joinStates : joinStates[f].status = "joined"}

(***************************************************************************)
(* C29.  In every state another task or the UI can observe, at most one    *)
(* entry of the registry has the status 'joined'.                          *)
(***************************************************************************)
C29_AtMostOneJoined == Cardinality(JoinedEntries) <= 1

\* two loops found their friend on the user's server and both are in the
\* hold of line 101; the entry of the later one is the one that is 'joined'
C29_Witness ==
    /\ \A l \in Slots : loops[l].pc = "sleepJoined"
    /\ loops[1].fid # loops[2].fid
    /\ Cardinality(JoinedEntries) = 1

(***************************************************************************)
(* C30.  A loop whose entry has the cancelled flag set does not set the    *)
(* status of its friend to joined: the step of lines 95-99, which also     *)
(* calls cancelJoin for every other friend, is not taken by such a loop.   *)
(***************************************************************************)
C30_CancelledLoopNeverJoins ==
    [][\A l \in Slots :
          (Active(l) /\ IsCancelled(joinStates, loops[l].fid))
              => ~SetsJoined(l)]_vars

\* the entry of g after the step is cancelled: cancelled = true and status =
\* 'cancelled'
CancelledAfter(g) ==
    /\ HasEntry(joinStates', g)
    /\ joinStates'[g].status = "cancelled"
    /\ joinStates'[g].cancelled = TRUE

\* the step leaves the fields of g's entry other than status and cancelled
\* as they are, and adds none
OtherFieldsKept(g) ==
    HasEntry(joinStates, g) =>
        /\ DOMAIN joinStates'[g] = DOMAIN joinStates[g]
        /\ \A k \in DOMAIN joinStates[g] \ {"status", "cancelled"} :
              joinStates'[g][k] = joinStates[g][k]

\* the followed loop runs cancelJoin(friend_id) after 60000 ms of missing
TimesOut == call.fn = "joinLoop" /\ call.pc = "statuses" /\ call'.pc = "done"

\* the followed loop sets 'joined' and runs cancelJoin for the other friends
CrossCancels ==
    call.fn = "joinLoop" /\ call.pc = "sleepConnect" /\ call'.pc = "sleepJoined"

\* the followed loop runs cancelJoin(friend_id) after the hold of 1500 ms
Finalizes ==
    call.fn = "joinLoop" /\ call.pc = "sleepJoined" /\ call'.pc = "done"

(***************************************************************************)
(* C31.  Each of the four causes of cancellation leaves the entry it       *)
(* affects with cancelled = true and status 'cancelled' and its other      *)
(* fields as they were: cancelJoin called by the UI, the missing timeout,  *)
(* the cancelJoin of every other friend by a loop that sets 'joined', and  *)
(* the cancelJoin that ends the hold of 'joined'.  (The step of the        *)
(* timeout writes the cached name and avatar to the entry before it calls  *)
(* cancelJoin, lines 68-70: those are the values the entry then has.)      *)
(***************************************************************************)
C31_CancellationCausesAgree ==
    [][/\ \A g \in Friends :
            cancelJoin(g) => (CancelledAfter(g) /\ OtherFieldsKept(g))
       /\ TimesOut =>
            /\ CancelledAfter(call.fid)
            /\ joinStates'[call.fid].personaname = call'.lastKnownPersona
            /\ joinStates'[call.fid].avatar = call'.lastKnownAvatar
       /\ CrossCancels =>
            \A g \in DOMAIN joinStates \ {call.fid} :
                CancelledAfter(g) /\ OtherFieldsKept(g)
       /\ Finalizes =>
            (CancelledAfter(call.fid) /\ OtherFieldsKept(call.fid))]_vars

\* a loop holds 'joined' and the other friend's entry, which carries a name
\* from its own missing polls, is cancelled
C31_Witness ==
    /\ call.fn = "joinLoop"
    /\ call.pc = "sleepJoined"
    /\ \E g \in DOMAIN joinStates \ {call.fid} :
          /\ EntryField(joinStates, g, "personaname") \in Personas \cup {"Unknown"}
          /\ joinStates[g].status = "cancelled"
          /\ joinStates[g].cancelled = TRUE

(***************************************************************************)
(* C32.  cancelJoin(id) adds no key to the registry: the set of friend ids *)
(* that have an entry is the same after the call as before.                *)
(***************************************************************************)
C32_CancelJoinAddsNoKey ==
    [][\A f \in Friends :
          cancelJoin(f) => DOMAIN joinStates' = DOMAIN joinStates]_vars

(***************************************************************************)
(* The interval timers of startJoin (lines 21-36).  The registry is        *)
(* joinStates, with the field interval of its entries; call holds the      *)
(* timers that setInterval has created and clearInterval has not cleared,  *)
(* each with the friend_id its callback closes over.  The writes of        *)
(* joinLoop to the status of an entry are steps of their own.              *)
(***************************************************************************)
\* how many timers setInterval creates
MaxTimers == 3

\* interval: null, and the falsy interval of an entry that has none
NoTimer == 0

TimerIds == 1..MaxTimers

\* joinStates[friend_id] = { status: 'waiting', cancelled: false, interval: ... }
TimedEntry(t) == [status |-> "waiting", cancelled |-> FALSE, interval |-> t]

\* joinStates[fid]?.interval
IntervalOf(js, f) ==
    IF HasEntry(js, f) /\ "interval" \in DOMAIN js[f]
    THEN js[f].interval
    ELSE NoTimer

\* clearInterval(id) on the set of running timers
clearInterval(active, id) == {t \in active : t.id # id}

\* the statuses joinLoop assigns: lines 68, 86, 95, and 108 after the break
LoopStatuses == {"missing", "connecting", "joined", "cancelled"}

InitTimers ==
    /\ joinStates = EmptyRegistry
    /\ loops = [l \in Slots |-> IdleLoop]
    /\ now = interval_ms
    /\ ticks = 0
    /\ call = [fn |-> "setInterval", active |-> {}, next |-> 1]

\* startJoin(friend_id) up to the call of joinLoop
timers_startJoin(f) ==
    /\ call.next \in TimerIds
    /\ joinStates' = SetEntry(joinStates, f, TimedEntry(call.next))
    /\ call' = [call EXCEPT !.active = @ \cup {[id |-> call.next, fid |-> f]},
                            !.next = @ + 1]
    /\ UNCHANGED <<loops, now, ticks>>

\* cancelJoin(friend_id)
timers_cancelJoin(f) ==
    /\ joinStates' = cancelJoinStates(joinStates, f)
    /\ call' = [call EXCEPT
                   !.active = clearInterval(@, IntervalOf(joinStates, f))]
    /\ UNCHANGED <<loops, now, ticks>>

\* resetAll()
timers_resetAll ==
    /\ joinStates' = EmptyRegistry
    /\ call' = [call EXCEPT !.active =
                   {t \in @ : \A f \in DOMAIN joinStates :
                                 t.id # IntervalOf(joinStates, f)}]
    /\ UNCHANGED <<loops, now, ticks>>

\* joinLoop assigns joinStates[friend_id].status; the loop reaches line 108
\* from the break of line 53, 74 or 103, with the cancelled flag set
timers_joinLoop(f, st) ==
    /\ HasEntry(joinStates, f)
    /\ st = "cancelled" => IsCancelled(joinStates, f)
    /\ joinStates' = SetStatus(joinStates, f, st)
    /\ UNCHANGED <<loops, now, ticks, call>>

\* the callback of timer t runs (lines 29-36); joinStates[friend_id].interval
\* of line 34 is a TypeError when the entry is gone, and the timer stays
timers_callback(t) ==
    /\ t \in call.active
    /\ LET status == IF HasEntry(joinStates, t.fid)
                     THEN joinStates[t.fid].status
                     ELSE "cancelled"
       IN IF status \in {"joined", "cancelled"} /\ HasEntry(joinStates, t.fid)
          THEN call' = [call EXCEPT
                   !.active = clearInterval(@, IntervalOf(joinStates, t.fid))]
          ELSE UNCHANGED call
    /\ UNCHANGED <<joinStates, loops, now, ticks>>

NextTimers ==
    \/ \E f \in Friends : timers_startJoin(f)
    \/ \E f \in Friends : timers_cancelJoin(f)
    \/ timers_resetAll
    \/ \E f \in Friends, st \in LoopStatuses : timers_joinLoop(f, st)
    \/ \E i \in TimerIds, f \in Friends : timers_callback([id |-> i, fid |-> f])

SpecTimers == InitTimers /\ [][NextTimers]_vars

\* the running timers whose callback refreshes the button and dot of f
TimersOf(f) == {t \in call.active : t.fid = f}

(***************************************************************************)
(* C33.  For every friend at most one interval timer of startJoin is       *)
(* running, and none is running when the friend's entry has the status     *)
(* 'cancelled' or does not exist.                                          *)
(***************************************************************************)
C33_OneTimerPerFriend ==
    call.fn = "setInterval" =>
        \A f \in Friends :
            /\ Cardinality(TimersOf(f)) <= 1
            /\ (~HasEntry(joinStates, f) \/ joinStates[f].status = "cancelled")
                   => TimersOf(f) = {}

(***************************************************************************)
(* The join buttons of the friends list (ui-manager: updateJoinButton,     *)
(* renderFriendsList).  The registry is joinStates; call holds, for every  *)
(* friend, the button element join-btn-<id>: whether it is in the          *)
(* document, whether it has the class cancel-btn, whether it is disabled.  *)
(***************************************************************************)
\* no element with the id join-btn-<id>
NoButton == [rendered |-> FALSE, cancel_btn |-> FALSE, disabled |-> FALSE]

\* updateJoinButton(friend_id, status) on the button b
updateJoinButton(b, status) ==
    IF ~b.rendered
    THEN b
    ELSE [rendered |-> TRUE,
          cancel_btn |-> status \in {"waiting", "connecting"},
          disabled |-> (status = "joined")]

\* the button renderFriendsList writes for a friend: the template of the
\* html, then updateDot and updateJoinButton when the friend has an entry
RenderedButton(js, f) ==
    LET template == [rendered |-> TRUE,
                     cancel_btn |-> /\ HasEntry(js, f)
                                    /\ js[f].status \in
                                           {"waiting", "connecting", "missing"},
                     disabled |-> FALSE]
    IN IF HasEntry(js, f)
       THEN updateJoinButton(template, js[f].status)
       ELSE template

\* joinStates[friend_id]?.status || 'cancelled'
StatusOrCancelled(js, f) == IF HasEntry(js, f) THEN js[f].status ELSE "cancelled"

InitButton ==
    /\ joinStates = EmptyRegistry
    /\ loops = [l \in Slots |-> IdleLoop]
    /\ now = interval_ms
    /\ ticks = 0
    /\ call = [fn |-> "updateJoinButton", btn |-> [f \in Friends |-> NoButton],
               clicked |-> "none"]

\* renderFriendsList(friends, JoinManager.getJoinStates())
renderFriendsList ==
    /\ call' = [call EXCEPT
                   !.btn = [f \in Friends |-> RenderedButton(joinStates, f)]]
    /\ UNCHANGED <<joinStates, loops, now, ticks>>

\* the callback of the interval timer of startJoin, for an entry whose timer
\* cancelJoin has not cleared
button_refresh(f) ==
    /\ HasEntry(joinStates, f)
    /\ ~IsCancelled(joinStates, f)
    /\ call' = [call EXCEPT
                   !.btn[f] = updateJoinButton(@, StatusOrCancelled(joinStates, f))]
    /\ UNCHANGED <<joinStates, loops, now, ticks>>

\* a click on the button: the listener of renderFriendsList calls cancelJoin
\* when the button has the class cancel-btn, startJoin otherwise; both
\* update the button at once (lines 26 and 126 of join-manager.js)
button_click(f) ==
    /\ call.btn[f].rendered
    /\ ~call.btn[f].disabled
    /\ IF call.btn[f].cancel_btn
       THEN /\ joinStates' = cancelJoinStates(joinStates, f)
            /\ call' = [call EXCEPT
                           !.btn[f] = updateJoinButton(@, "cancelled"),
                           !.clicked = "cancelJoin"]
       ELSE /\ joinStates' = SetEntry(joinStates, f, NewEntry)
            /\ call' = [call EXCEPT
                           !.btn[f] = updateJoinButton(@, "waiting"),
                           !.clicked = "startJoin"]
    /\ UNCHANGED <<loops, now, ticks>>

\* joinLoop assigns joinStates[friend_id].status
button_joinLoop(f, st) ==
    /\ HasEntry(joinStates, f)
    /\ st = "cancelled" => IsCancelled(joinStates, f)
    /\ joinStates' = SetStatus(joinStates, f, st)
    /\ UNCHANGED <<loops, now, ticks, call>>

NextButton ==
    \/ renderFriendsList
    \/ \E f \in Friends : button_refresh(f)
    \/ \E f \in Friends : button_click(f)
    \/ \E f \in Friends, st \in LoopStatuses : button_joinLoop(f, st)
    \/ resetAll

SpecButton == InitButton /\ [][NextButton]_vars

\* the join of f is active
JoinActive(js, f) ==
    HasEntry(js, f) /\ js[f].status \in {"waiting", "connecting", "missing"}

(***************************************************************************)
(* C34.  After a render of the list and after a periodic refresh of the    *)
(* button of a friend whose join is active (status waiting, connecting or  *)
(* missing), the button has the class cancel-btn, so that a click on it    *)
(* calls cancelJoin.                                                       *)
(***************************************************************************)
C34_ActiveJoinShowsCancel ==
    [][\A f \in Friends :
          ((renderFriendsList \/ button_refresh(f)) /\ JoinActive(joinStates', f))
              => call'.btn[f].cancel_btn]_vars

(***************************************************************************)
(* getPlayerSummaries(auth, steamids), steam-api.js 79-122.  The ids of    *)
(* the argument are their positions 0 .. n-1; call holds the position in   *)
(* the for loop, the request in flight, the requests made so far with      *)
(* their responses, and result.                                            *)
(***************************************************************************)
\* what steamids is: an array, a non-empty string, a falsy value (null,
\* undefined, ""), or anything else
ArgumentKinds == {"array", "string", "falsy", "other"}

\* what a request gets: a response that is not ok, an ok response with the
\* players of the ids asked for, or an ok response without a players array
SummaryResponses == {"notOk", "players", "noPlayers"}

\* steamids.slice(i, i + 100) without the upper end
slice_rest(i, n) == {k \in 0..(n - 1) : i <= k}

\* steamids.slice(i, i + 100), of an array of n ids
slice(i, n) == {k \in 0..(n - 1) : i <= k /\ k < i + ChunkSize}

InitSummaries ==
    /\ joinStates = EmptyRegistry
    /\ loops = [l \in Slots |-> IdleLoop]
    /\ now = interval_ms
    /\ ticks = 0
    /\ call \in {[fn |-> "getPlayerSummaries", kind |-> k, n |-> n,
                   pc |-> "start", i |-> 0, chunk |-> {}, requests |-> <<>>,
                   result |-> {}] :
                      k \in ArgumentKinds, n \in IdCounts}

\* lines 80-92: the argument is made an array; the empty one returns {};
\* otherwise the first chunk is requested
getPlayerSummaries_start ==
    /\ call.fn = "getPlayerSummaries"
    /\ call.pc = "start"
    /\ LET n == CASE call.kind = "array" -> call.n
                  [] call.kind = "string" -> 1
                  [] OTHER -> 0
       IN call' = IF call.kind = "other"
                  THEN [call EXCEPT !.pc = "threw"]
                  ELSE IF n = 0
                  THEN [call EXCEPT !.n = 0, !.pc = "returned"]
                  ELSE [call EXCEPT !.n = n, !.pc = "fetch",
                                    !.chunk = slice(0, n)]
    /\ UNCHANGED <<joinStates, loops, now, ticks>>

\* lines 102-119: resp = await fetch(url) settles; if (!resp.ok) continue;
\* the players go into result; i += 100; the next chunk or return result
getPlayerSummaries_chunk(resp) ==
    /\ call.fn = "getPlayerSummaries"
    /\ call.pc = "fetch"
    /\ LET players == IF resp = "players" THEN call.chunk ELSE {}
           next == call.i + ChunkSize
           made == Append(call.requests, [ids |-> call.chunk, resp |-> resp])
       IN call' = IF next < call.n
                  THEN [call EXCEPT !.requests = made,
                                    !.result = @ \cup players,
                                    !.i = next,
                                    !.chunk = slice(next, call.n)]
                  ELSE [call EXCEPT !.requests = made,
                                    !.result = @ \cup players,
                                    !.i = next,
                                    !.chunk = {},
                                    !.pc = "returned"]
    /\ UNCHANGED <<joinStates, loops, now, ticks>>

NextSummaries ==
    \/ getPlayerSummaries_start
    \/ \E resp \in SummaryResponses : getPlayerSummaries_chunk(resp)

SpecSummaries == InitSummaries /\ [][NextSummaries]_vars

\* the positions of the requests made so far
RequestsMade == 1..Len(call.requests)

(***************************************************************************)
(* C35.  Every request of getPlayerSummaries holds at most 100 ids and no  *)
(* id of an earlier request; the call throws after no request, whatever    *)
(* the responses were; and when it returns, every id of the argument was   *)
(* in one request and result holds the players of every request that got   *)
(* them, also when other requests got a response that is not ok.           *)
(***************************************************************************)
C35_ChunksOfHundredSkipFailures ==
    call.fn = "getPlayerSummaries" =>
        /\ \A r \in RequestsMade :
              /\ Cardinality(call.requests[r].ids) <= 100
              /\ \A q \in RequestsMade :
                    q # r => call.requests[q].ids \cap call.requests[r].ids = {}
        /\ call.pc = "threw" => call.requests = <<>>
        /\ call.pc = "returned" =>
              /\ \A k \in 0..(call.n - 1) :
                    \E r \in RequestsMade : k \in call.requests[r].ids
              /\ \A r \in RequestsMade :
                    call.requests[r].resp = "players"
                        => call.requests[r].ids \subseteq call.result

\* a call with more than 100 ids has returned; a request of it got a
\* response that is not ok and a later one got its players
C35_Witness ==
    /\ call.fn = "getPlayerSummaries"
    /\ call.pc = "returned"
    /\ call.n > ChunkSize
    /\ \E q, r \in RequestsMade :
          /\ q < r
          /\ call.requests[q].resp = "notOk"
          /\ call.requests[r].resp = "players"
          /\ call.requests[r].ids # {}
          /\ call.requests[r].ids \subseteq call.result

(***************************************************************************)
(* getFriendConnectInfo and getFriendsStatuses on one response of          *)
(* GetPlayerLinkDetails (steam-api.js 198-224 and 144-185).  call holds    *)
(* the accounts of the response, each with the game_id and the             *)
(* rich_presence_kv of its private_data, and what the two functions        *)
(* return for it.                                                          *)
(***************************************************************************)
\* priv.game_id: Counter-Strike 2, another game, or none
GameIds == {"730", "570", NULL}

\* data.response.accounts for a request with one steam id
AccountLists ==
    {<<>>} \cup {<<[game_id |-> g, kv |-> kv]>> : g \in GameIds, kv \in StatusBlobs}

\* connectOf without the tests of game_mode and game_state
connectOf_anyMode(acc) ==
    IF acc.game_id # "730" THEN NULL ELSE parseRichPresence(acc.kv).connect

\* lines 213-220 of getFriendConnectInfo, for the account accounts[0]
connectOf(acc) ==
    IF acc.game_id # "730"
    THEN NULL
    ELSE LET rp == parseRichPresence(acc.kv) IN
         IF rp.game_mode = "casual" /\ rp.game_state \notin {"", NULL, "lobby"}
         THEN rp.connect
         ELSE NULL

\* getFriendConnectInfo for a response that is ok: if (!accounts.length)
\* return null
connectInfoOf(accounts) ==
    IF Len(accounts) = 0 THEN NULL ELSE connectOf(accounts[1])

\* acc => (acc.private_data || {}).game_id === "730"
InGame(acc) == acc.game_id = "730"

\* getFriendsStatuses for a response that is ok:
\* accounts.filter(...).map(...)
statusesOf(accounts) ==
    LET playing == SelectSeq(accounts, InGame) IN
    [i \in 1..Len(playing) |-> FriendStatus(playing[i].kv)]

InitConnect ==
    /\ joinStates = EmptyRegistry
    /\ loops = [l \in Slots |-> IdleLoop]
    /\ now = interval_ms
    /\ ticks = 0
    /\ call \in {[fn |-> "getFriendConnectInfo", accounts |-> a, done |-> FALSE,
                   connect |-> NULL, statuses |-> <<>>] : a \in AccountLists}

\* both functions get the response
connect_response ==
    /\ call.fn = "getFriendConnectInfo"
    /\ ~call.done
    /\ call' = [call EXCEPT !.done = TRUE,
                            !.connect = connectInfoOf(call.accounts),
                            !.statuses = statusesOf(call.accounts)]
    /\ UNCHANGED <<joinStates, loops, now, ticks>>

NextConnect == connect_response

SpecConnect == InitConnect /\ [][NextConnect]_vars

(***************************************************************************)
(* C36.  For every response: when getFriendConnectInfo returns a connect   *)
(* string, getFriendsStatuses returns for the same response an entry with  *)
(* can_join true; and getFriendConnectInfo returns null when the account   *)
(* is not in game 730, when its game_mode is not casual, and when its      *)
(* game_state is null, empty or lobby.                                     *)
(***************************************************************************)
C36_ConnectOnlyIfCanJoin ==
    (call.fn = "getFriendConnectInfo" /\ call.done) =>
        /\ call.connect # NULL =>
              /\ Len(call.statuses) > 0
              /\ call.statuses[1].can_join
        /\ \A i \in 1..Len(call.accounts) :
              LET rp == parseRichPresence(call.accounts[i].kv) IN
              (\/ call.accounts[i].game_id # "730"
               \/ rp.game_mode # "casual"
               \/ rp.game_state \in {NULL, "", "lobby"})
                  => call.connect = NULL

\* a connect string was returned for a casual friend in a match
C36_Witness ==
    /\ call.fn = "getFriendConnectInfo"
    /\ call.done
    /\ call.connect = "+gcconnect:1"
    /\ Len(call.statuses) = 1
    /\ call.statuses[1].can_join
    /\ call.statuses[1].join_available

(***************************************************************************)
(* The try/catch of getFriendConnectInfo and getUserGameServerSteamId      *)
(* (steam-api.js 198-224, 232-254): what the caller gets for every way the *)
(* awaits inside the try can settle.                                       *)
(***************************************************************************)
\* await fetch(url) rejects (no network), or resolves to a response; await
\* resp.json() of a response rejects (the body is not JSON) or resolves
Settlements ==
    [fetched : {FALSE}, resp : {CHOOSE r \in Responses : TRUE}, json : {FALSE}]
    \cup [fetched : {TRUE}, resp : Responses, json : BOOLEAN]

SingleIdOperations == {"getFriendConnectInfo", "getUserGameServerSteamId"}

\* a catch block that throws the error on
catchNull_rethrow(error) == Thrown(error, 0)

\* catch (error) { console.error(...); return null; }
catchNull(error) == Returned(NULL)

\* the body of the try of the operation op, with the awaits settling as s
tryBody(op, s) ==
    IF ~s.fetched THEN catchNull("fetch")
    ELSE IF ~s.resp.ok THEN Returned(NULL)
    ELSE IF ~s.json THEN catchNull("json")
    ELSE IF op = "getFriendConnectInfo" THEN getFriendConnectInfo(s.resp)
    ELSE getUserGameServerSteamId(s.resp)

InitSingle ==
    /\ joinStates = EmptyRegistry
    /\ loops = [l \in Slots |-> IdleLoop]
    /\ now = interval_ms
    /\ ticks = 0
    /\ call \in {[fn |-> "try", op |-> op, isToken |-> t, settled |-> s,
                   done |-> FALSE, out |-> Returned(NULL)] :
                      op \in SingleIdOperations, t \in BOOLEAN, s \in Settlements}

\* the call runs to its return
single_settle ==
    /\ call.fn = "try"
    /\ ~call.done
    /\ call' = [call EXCEPT !.done = TRUE, !.out = tryBody(call.op, call.settled)]
    /\ UNCHANGED <<joinStates, loops, now, ticks>>

NextSingle == single_settle

SpecSingle == InitSingle /\ [][NextSingle]_vars

(***************************************************************************)
(* C37.  getFriendConnectInfo and getUserGameServerSteamId hand no         *)
(* exception to their caller; a response that is not ok, a response with   *)
(* no account, and an exception of fetch or of resp.json() each give null. *)
(***************************************************************************)
C37_SingleIdCallsNeverThrow ==
    (call.fn = "try" /\ call.done) =>
        /\ ~call.out.threw
        /\ (\/ ~call.settled.fetched
            \/ ~call.settled.resp.ok
            \/ ~call.settled.json
            \/ call.settled.resp.data = "none")
               => call.out.value = NULL

\* a call whose fetch rejected has returned null
C37_Witness ==
    /\ call.fn = "try"
    /\ call.done
    /\ ~call.settled.fetched
    /\ ~call.out.threw
    /\ call.out.value = NULL

(***************************************************************************)
(* startAutoRefresh of app.js (lines 157-177).  call holds                 *)
(* AppState.friendsRefreshInterval (stored), the timers that setInterval   *)
(* has created and clearInterval has not cleared, each with the number of  *)
(* the call that created it, the calls that are at their                   *)
(* await fetchAndRenderFriendsByIds(...), and how many calls were made.    *)
(***************************************************************************)
\* how many times startAutoRefresh is called
MaxCalls == 4

CallNumbers == 1..MaxCalls

\* startAutoRefresh without its clearInterval
clearStored_never(active, stored) == active

\* if (AppState.friendsRefreshInterval)
\*     clearInterval(AppState.friendsRefreshInterval)
clearStored(active, stored) ==
    IF stored # NoTimer THEN clearInterval(active, stored) ELSE active

InitRefresh ==
    /\ joinStates = EmptyRegistry
    /\ loops = [l \in Slots |-> IdleLoop]
    /\ now = interval_ms
    /\ ticks = 0
    /\ call = [fn |-> "startAutoRefresh", stored |-> NoTimer, active |-> {},
               awaiting |-> {}, calls |-> 0, next |-> 1]

\* startAutoRefresh() is called and runs to its await
startAutoRefresh ==
    /\ call.calls < MaxCalls
    /\ call' = [call EXCEPT !.calls = @ + 1,
                            !.awaiting = @ \cup {call.calls + 1}]
    /\ UNCHANGED <<joinStates, loops, now, ticks>>

\* the await of call c settles: fetchAndRenderFriendsByIds threw, and the
\* catch throws on; or it returned, and the timer is replaced
startAutoRefresh_resume(c, ok) ==
    /\ c \in call.awaiting
    /\ call' = IF ~ok
               THEN [call EXCEPT !.awaiting = @ \ {c}]
               ELSE [call EXCEPT
                        !.awaiting = @ \ {c},
                        !.active = clearStored(@, call.stored)
                                       \cup {[id |-> call.next, by |-> c]},
                        !.stored = call.next,
                        !.next = @ + 1]
    /\ UNCHANGED <<joinStates, loops, now, ticks>>

NextRefresh ==
    \/ startAutoRefresh
    \/ \E c \in CallNumbers, ok \in BOOLEAN : startAutoRefresh_resume(c, ok)

SpecRefresh == InitRefresh /\ [][NextRefresh]_vars

(***************************************************************************)
(* C38.  At most one interval timer of the auto-refresh is running in      *)
(* every state, however the calls of startAutoRefresh and the ends of      *)
(* their awaits are interleaved.                                           *)
(***************************************************************************)
C38_OneRefreshTimer ==
    call.fn = "startAutoRefresh" => Cardinality(call.active) <= 1

\* two calls awaited their first fetch side by side and came back in the
\* other order: the second timer was created by the first call
C38_Witness ==
    /\ call.fn = "startAutoRefresh"
    /\ call.active = {[id |-> 2, by |-> 1]}
    /\ call.stored = 2

====
